---- MODULE Spec2Model ----
(***************************************************************************)
(* Shape-level model of keras-resnet: the ResNet builder (resnet.py), the  *)
(* binarization routine (binarize-one.py) and the prediction script        *)
(* (predict.py).  Tensors are represented by their static shape            *)
(* <<batch, rows, cols, channels>> with batch = 0 standing for None;       *)
(* Python's 0-based index k is the 1-based index k + 1 here.               *)
(***************************************************************************)
EXTENDS Integers, Sequences, FiniteSets, TLC

\* pc: control position of resnet / binarize / main.
\* args .. dense: the arguments and locals of resnet (resnet.py:156-185);
\*   stage and rep are the loop indices of resnet and _residual_block, last
\*   records the block built by the latest iteration, main_layers and
\*   projections count the Conv2D / Dense layers created so far.
\* img .. opened: the locals of binarize (binarize-one.py:10-26); th_red is
\*   the thresholded image, opened the image after morphologyEx (returned).
\* pred .. service: the locals of main (predict.py:24-31).
VARIABLES pc, args, input, block, filters, stage, rep, last,
          main_layers, projections, block_shape, flatten1, dense,
          img, redGreen, th_red, opened,
          pred, predicted_class_indices, service

netvars == <<args, input, block, filters, stage, rep, last,
             main_layers, projections, block_shape, flatten1, dense>>
binvars == <<img, redGreen, th_red, opened>>
predvars == <<pred, predicted_class_indices, service>>
vars == <<pc, netvars, binvars, predvars>>

(* ------------------------------ bounds --------------------------------- *)
MaxDim == 4
MaxStages == 2
MaxRep == 2
MaxH == 2
MaxW == 2
MaxPredLen == 8

(* ------------------------- arithmetic helpers -------------------------- *)
CeilDiv(a, b) == (a + b - 1) \div b

\* Python 2 semantics of int / int (floor division), then round: no rounding left
PyRoundDiv_floor(a, b) == a \div b

\* int(round(a / b)) in Python 3: true division, ties to the even integer
PyRoundDiv(a, b) ==
    LET q == a \div b
        r == a % b
    IN  IF 2 * r < b THEN q
        ELSE IF 2 * r > b THEN q + 1
        ELSE IF q % 2 = 0 THEN q ELSE q + 1

(* --------------------------- resnet.py --------------------------------- *)
ROW_AXIS == 1
COL_AXIS == 2
CHANNEL_AXIS == 3

\* K.int_shape(x)[axis]
Dim(x, axis) == x[axis + 1]

\* Input(shape=input_shape): a batch dimension is prepended
Input(shape) == <<0>> \o shape

\* output length of one spatial dimension of a convolution / pooling
ConvOut(n, k, s, padding) ==
    IF padding = "same" THEN CeilDiv(n, s) ELSE ((n - k) \div s) + 1

\* Conv2D(filters, kernel_size, strides, padding)(x), channels_last
Conv2D(f, kernel_size, strides, padding, x) ==
    <<x[1], ConvOut(x[2], kernel_size[1], strides[1], padding),
            ConvOut(x[3], kernel_size[2], strides[2], padding), f>>

MaxPooling2D(pool_size, strides, padding, x) ==
    <<x[1], ConvOut(x[2], pool_size[1], strides[1], padding),
            ConvOut(x[3], pool_size[2], strides[2], padding), x[4]>>

\* AveragePooling2D(pool_size, strides)(x), default padding "valid"
AveragePooling2D(pool_size, strides, x) ==
    <<x[1], ConvOut(x[2], pool_size[1], strides[1], "valid"),
            ConvOut(x[3], pool_size[2], strides[2], "valid"), x[4]>>

Flatten(x) == <<x[1], x[2] * x[3] * x[4]>>

Dense(units, x) == <<x[1], units>>

\* keras.layers.add([a, b]): elementwise merge; a dimension of 1 broadcasts,
\* any other mismatch raises (modelled as the empty shape)
add(a, b) ==
    IF \A k \in 2..4 : a[k] = b[k] \/ a[k] = 1 \/ b[k] = 1
    THEN [k \in 1..4 |-> IF a[k] = 1 THEN b[k] ELSE a[k]]
    ELSE <<>>

_bn_relu(x) == x

_conv_bn_relu(f, kernel_size, strides, x) ==
    _bn_relu(Conv2D(f, kernel_size, strides, "same", x))

_bn_relu_conv(f, kernel_size, strides, x) ==
    Conv2D(f, kernel_size, strides, "same", _bn_relu(x))

_shortcut_nochannels(inp, residual) ==
    LET stride_width == PyRoundDiv(Dim(inp, ROW_AXIS), Dim(residual, ROW_AXIS))
        stride_height == PyRoundDiv(Dim(inp, COL_AXIS), Dim(residual, COL_AXIS))
        proj == stride_width > 1 \/ stride_height > 1
        sc == IF proj
              THEN Conv2D(Dim(residual, CHANNEL_AXIS), <<1, 1>>,
                          <<stride_width, stride_height>>, "valid", inp)
              ELSE inp
    IN  [shortcut |-> sc, projection |-> proj, out |-> add(sc, residual)]

_shortcut(inp, residual) ==
    LET stride_width == PyRoundDiv(Dim(inp, ROW_AXIS), Dim(residual, ROW_AXIS))
        stride_height == PyRoundDiv(Dim(inp, COL_AXIS), Dim(residual, COL_AXIS))
        equal_channels == Dim(inp, CHANNEL_AXIS) = Dim(residual, CHANNEL_AXIS)
        proj == stride_width > 1 \/ stride_height > 1 \/ ~equal_channels
        sc == IF proj
              THEN Conv2D(Dim(residual, CHANNEL_AXIS), <<1, 1>>,
                          <<stride_width, stride_height>>, "valid", inp)
              ELSE inp
    IN  [shortcut |-> sc, projection |-> proj, out |-> add(sc, residual)]

\* one block: the residual branch, the merge, and the number of convolutions
\* on the residual (main) path
basic_block(f, init_strides, is_first_block_of_first_layer, inp) ==
    LET conv1 == IF is_first_block_of_first_layer
                 THEN Conv2D(f, <<3, 3>>, init_strides, "same", inp)
                 ELSE _bn_relu_conv(f, <<3, 3>>, init_strides, inp)
        residual == _bn_relu_conv(f, <<3, 3>>, <<1, 1>>, conv1)
    IN  [residual |-> residual, merge |-> _shortcut(inp, residual), convs |-> 2]

bottleneck_x2(f, init_strides, is_first_block_of_first_layer, inp) ==
    LET conv_1_1 == IF is_first_block_of_first_layer
                    THEN Conv2D(f, <<1, 1>>, init_strides, "same", inp)
                    ELSE _bn_relu_conv(f, <<1, 1>>, init_strides, inp)
        conv_3_3 == _bn_relu_conv(f, <<3, 3>>, <<1, 1>>, conv_1_1)
        residual == _bn_relu_conv(f * 2, <<1, 1>>, <<1, 1>>, conv_3_3)
    IN  [residual |-> residual, merge |-> _shortcut(inp, residual), convs |-> 3]

bottleneck(f, init_strides, is_first_block_of_first_layer, inp) ==
    LET conv_1_1 == IF is_first_block_of_first_layer
                    THEN Conv2D(f, <<1, 1>>, init_strides, "same", inp)
                    ELSE _bn_relu_conv(f, <<1, 1>>, init_strides, inp)
        conv_3_3 == _bn_relu_conv(f, <<3, 3>>, <<1, 1>>, conv_1_1)
        residual == _bn_relu_conv(f * 4, <<1, 1>>, <<1, 1>>, conv_3_3)
    IN  [residual |-> residual, merge |-> _shortcut(inp, residual), convs |-> 3]

BlockNames == {"basic_block", "bottleneck"}

\* _get_block: a string is looked up among the module's globals
_get_block(identifier) ==
    IF identifier \in BlockNames THEN identifier ELSE "ValueError"

block_function(name, f, init_strides, is_first_block_of_first_layer, inp) ==
    IF name = "basic_block"
    THEN basic_block(f, init_strides, is_first_block_of_first_layer, inp)
    ELSE bottleneck(f, init_strides, is_first_block_of_first_layer, inp)

\* init_strides of iteration i of _residual_block
init_strides_always2(i, is_first_layer) ==
    IF i = 0 THEN <<2, 2>> ELSE <<1, 1>>

init_strides(i, is_first_layer) ==
    IF i = 0 /\ ~is_first_layer THEN <<2, 2>> ELSE <<1, 1>>

\* the arguments of one call of resnet
resnet(ctor, input_shape, num_outputs, block_fn, repetitions) ==
    [ctor |-> ctor, input_shape |-> input_shape, num_outputs |-> num_outputs,
     block_fn |-> block_fn, repetitions |-> repetitions]

resnet_18(input_shape, num_outputs) ==
    resnet("resnet_18", input_shape, num_outputs, "basic_block", <<2, 2, 2, 2>>)

resnet_34(input_shape, num_outputs) ==
    resnet("resnet_34", input_shape, num_outputs, "basic_block", <<3, 4, 6, 3>>)

resnet_50(input_shape, num_outputs) ==
    resnet("resnet_50", input_shape, num_outputs, "bottleneck", <<3, 4, 6, 3>>)

resnet_101_short(input_shape, num_outputs) ==
    resnet("resnet_101", input_shape, num_outputs, "bottleneck", <<3, 4, 22, 3>>)

resnet_101(input_shape, num_outputs) ==
    resnet("resnet_101", input_shape, num_outputs, "bottleneck", <<3, 4, 23, 3>>)

resnet_152(input_shape, num_outputs) ==
    resnet("resnet_152", input_shape, num_outputs, "bottleneck", <<3, 8, 36, 3>>)

(* ----------------------- inputs of the builder ------------------------- *)
Dims == (1..MaxDim) \cup {9, 25, 400}
Channels == {1, 3}
InputShapes == {<<a, b, c>> : a \in Dims, b \in Dims, c \in Channels} \cup {<<1, 400, 400>>}
BadShapes == {<<400, 400>>, <<1, 1, 400, 400>>}
NumOutputs == {7}

RECURSIVE SeqsUpTo(_, _)
SeqsUpTo(S, n) ==
    IF n = 0 THEN {<<>>}
    ELSE LET T == SeqsUpTo(S, n - 1)
         IN  T \cup {Append(t, x) : t \in {u \in T : Len(u) = n - 1}, x \in S}

Repetitions == SeqsUpTo(0..MaxRep, MaxStages) \ {<<>>}

Calls ==
    {resnet_18(s, n) : s \in InputShapes, n \in NumOutputs}
    \cup {resnet_34(s, n) : s \in InputShapes, n \in NumOutputs}
    \cup {resnet_50(s, n) : s \in InputShapes, n \in NumOutputs}
    \cup {resnet_101(s, n) : s \in InputShapes, n \in NumOutputs}
    \cup {resnet_152(s, n) : s \in InputShapes, n \in NumOutputs}
    \cup {resnet("resnet", s, n, b, r) :
              s \in InputShapes, n \in NumOutputs, b \in BlockNames, r \in Repetitions}
    \cup {resnet("resnet", s, 7, "basic_block", <<1>>) : s \in BadShapes}
    \cup {resnet("resnet", <<400, 400, 1>>, 7, "no_such_block", <<1>>)}

NoShape == <<>>
NoBlock == [stage |-> -1, i |-> -1, filters |-> 0, init_strides |-> <<0, 0>>,
            inp |-> NoShape, residual |-> NoShape, shortcut |-> NoShape,
            projection |-> FALSE, out |-> NoShape]
NoArgs == resnet("none", <<>>, 0, "none", <<>>)
NoImage == <<>>

NetIdle ==
    /\ args = NoArgs /\ input = NoShape /\ block = NoShape /\ filters = 0
    /\ stage = 0 /\ rep = 0 /\ last = NoBlock /\ main_layers = 0
    /\ projections = 0 /\ block_shape = NoShape /\ flatten1 = NoShape
    /\ dense = NoShape
BinIdle == img = NoImage /\ redGreen = NoImage /\ th_red = NoImage /\ opened = NoImage
PredIdle == pred = <<>> /\ predicted_class_indices = -1 /\ service = ""

(* ----------------------- the builder, step by step --------------------- *)
InitNet ==
    /\ pc = "start"
    /\ args \in Calls
    /\ input = NoShape /\ block = NoShape /\ filters = 0
    /\ stage = 0 /\ rep = 0 /\ last = NoBlock /\ main_layers = 0
    /\ projections = 0 /\ block_shape = NoShape /\ flatten1 = NoShape
    /\ dense = NoShape
    /\ BinIdle /\ PredIdle

\* resnet, lines 157-167: shape check, Input, stem convolution, max pooling
Stem ==
    /\ pc = "start"
    /\ IF Len(args.input_shape) # 3 \/ _get_block(args.block_fn) = "ValueError"
       THEN /\ pc' = "raised"
            /\ UNCHANGED <<input, block, filters, main_layers>>
       ELSE LET inp == Input(args.input_shape)
                conv1 == _conv_bn_relu(64, <<7, 7>>, <<2, 2>>, inp)
                pool1 == MaxPooling2D(<<3, 3>>, <<2, 2>>, "same", conv1)
            IN  /\ input' = inp
                /\ block' = pool1
                /\ filters' = 64
                /\ main_layers' = 1
                /\ pc' = "stages"
    /\ UNCHANGED <<args, stage, rep, last, projections, block_shape, flatten1, dense>>
    /\ UNCHANGED <<binvars, predvars>>

\* one iteration of the loop of _residual_block inside stage `stage`
ResidualUnit ==
    /\ pc = "stages"
    /\ stage < Len(args.repetitions)
    /\ rep < args.repetitions[stage + 1]
    /\ LET is_first_layer == (stage = 0)
           strides == init_strides(rep, is_first_layer)
           b == block_function(_get_block(args.block_fn), filters, strides,
                               is_first_layer /\ rep = 0, block)
       IN  /\ last' = [stage |-> stage, i |-> rep, filters |-> filters,
                       init_strides |-> strides, inp |-> block,
                       residual |-> b.residual, shortcut |-> b.merge.shortcut,
                       projection |-> b.merge.projection, out |-> b.merge.out]
           /\ main_layers' = main_layers + b.convs
           /\ projections' = projections + (IF b.merge.projection THEN 1 ELSE 0)
           /\ IF b.merge.out = NoShape
              THEN pc' = "raised" /\ UNCHANGED block
              ELSE pc' = pc /\ block' = b.merge.out
    /\ rep' = rep + 1
    /\ UNCHANGED <<args, input, filters, stage, block_shape, flatten1, dense>>
    /\ UNCHANGED <<binvars, predvars>>

\* end of one iteration of the stage loop of resnet: filters *= 2
StageEnd ==
    /\ pc = "stages"
    /\ stage < Len(args.repetitions)
    /\ rep = args.repetitions[stage + 1]
    /\ filters' = filters * 2
    /\ stage' = stage + 1
    /\ rep' = 0
    /\ UNCHANGED <<pc, args, input, block, last, main_layers, projections,
                   block_shape, flatten1, dense>>
    /\ UNCHANGED <<binvars, predvars>>

\* resnet, lines 173-185: last activation and classifier
Classifier ==
    /\ pc = "stages"
    /\ stage = Len(args.repetitions)
    /\ LET b == _bn_relu(block)
           pool2 == AveragePooling2D(<<Dim(b, ROW_AXIS), Dim(b, COL_AXIS)>>, <<1, 1>>, b)
           fl == Flatten(pool2)
       IN  /\ block_shape' = b
           /\ flatten1' = fl
           /\ dense' = Dense(args.num_outputs, fl)
    /\ main_layers' = main_layers + 1
    /\ pc' = "done"
    /\ UNCHANGED <<args, input, block, filters, stage, rep, last, projections>>
    /\ UNCHANGED <<binvars, predvars>>

NextNet == Stem \/ ResidualUnit \/ StageEnd \/ Classifier

Spec == InitNet /\ [][NextNet]_vars

(* -------------------------- binarize-one.py ---------------------------- *)
Height(m) == Len(m)
Width(m) == Len(m[1])

\* img[:, :, c]
Channel(m, c) == [y \in 1..Height(m) |-> [x \in 1..Width(m) |-> m[y][x][c + 1]]]

\* cvRound(num / den): nearest integer, ties to even
cvRound(num, den) ==
    LET q == num \div den
        r == num % den
    IN  IF 2 * r < den THEN q
        ELSE IF 2 * r > den THEN q + 1
        ELSE IF q % 2 = 0 THEN q ELSE q + 1

saturate_cast_uchar(v) == IF v < 0 THEN 0 ELSE IF v > 255 THEN 255 ELSE v

\* cv2.addWeighted(src1, alpha, src2, beta, gamma); alpha and beta are
\* rationals <<numerator, denominator>>
addWeighted(src1, alpha, src2, beta, gamma) ==
    [y \in 1..Height(src1) |-> [x \in 1..Width(src1) |->
        saturate_cast_uchar(
            cvRound(src1[y][x] * alpha[1] * beta[2] + src2[y][x] * beta[1] * alpha[2]
                      + gamma * alpha[2] * beta[2],
                    alpha[2] * beta[2]))]]

RECURSIVE SumSeq(_)
SumSeq(s) == IF s = <<>> THEN 0 ELSE Head(s) + SumSeq(Tail(s))

Clamp(v, lo, hi) == IF v < lo THEN lo ELSE IF v > hi THEN hi ELSE v

\* 8-bit fixed-point coefficients of the Gaussian kernel of size 9
\* (sigma = 0.3 * ((9 - 1) * 0.5 - 1) + 0.8 = 1.7); they sum to 256
GaussianKernel == <<4, 13, 30, 51, 60, 51, 30, 13, 4>>

\* Gaussian-weighted mean of the blockSize x blockSize neighbourhood of (y, x),
\* border pixels replicated
GaussianMean(src, blockSize, y, x) ==
    LET half == blockSize \div 2
        term(k) ==
            LET dy == ((k - 1) \div blockSize) - half
                dx == ((k - 1) % blockSize) - half
            IN  GaussianKernel[dy + half + 1] * GaussianKernel[dx + half + 1]
                  * src[Clamp(y + dy, 1, Height(src))][Clamp(x + dx, 1, Width(src))]
    IN  cvRound(SumSeq([k \in 1..(blockSize * blockSize) |-> term(k)]), 256 * 256)

adaptiveThreshold_bit(src, maxValue, thresholdType, blockSize, C) ==
    [y \in 1..Height(src) |-> [x \in 1..Width(src) |->
        LET above == src[y][x] > GaussianMean(src, blockSize, y, x) - C
        IN  IF thresholdType = "THRESH_BINARY_INV"
            THEN (IF above THEN 0 ELSE 1)
            ELSE (IF above THEN 1 ELSE 0)]]

\* cv2.adaptiveThreshold(src, maxValue, ADAPTIVE_THRESH_GAUSSIAN_C,
\*                       thresholdType, blockSize, C)
adaptiveThreshold(src, maxValue, thresholdType, blockSize, C) ==
    [y \in 1..Height(src) |-> [x \in 1..Width(src) |->
        LET above == src[y][x] > GaussianMean(src, blockSize, y, x) - C
        IN  IF thresholdType = "THRESH_BINARY_INV"
            THEN (IF above THEN 0 ELSE maxValue)
            ELSE (IF above THEN maxValue ELSE 0)]]

\* np.ones((rows, cols), np.uint8)
np_ones(rows, cols) == [y \in 1..rows |-> [x \in 1..cols |-> 1]]

kernel_3x3 == np_ones(3, 3)

kernel == np_ones(1, 1)

SetMin(S) == CHOOSE v \in S : \A w \in S : v <= w
SetMax(S) == CHOOSE v \in S : \A w \in S : v >= w

\* the pixels of src under the non-zero kernel elements anchored (centre) at
\* (y, x); positions outside the image do not take part
Under(src, k, y, x) ==
    {src[y + ky - 1 - (Height(k) \div 2)][x + kx - 1 - (Width(k) \div 2)] :
        <<ky, kx>> \in {p \in (1..Height(k)) \X (1..Width(k)) :
            /\ k[p[1]][p[2]] # 0
            /\ y + p[1] - 1 - (Height(k) \div 2) \in 1..Height(src)
            /\ x + p[2] - 1 - (Width(k) \div 2) \in 1..Width(src)}}

erode(src, k) ==
    [y \in 1..Height(src) |-> [x \in 1..Width(src) |-> SetMin(Under(src, k, y, x))]]

dilate(src, k) ==
    [y \in 1..Height(src) |-> [x \in 1..Width(src) |-> SetMax(Under(src, k, y, x))]]

\* cv2.morphologyEx(src, cv2.MORPH_OPEN, kernel)
morphologyEx_OPEN(src, k) == dilate(erode(src, k), k)

\* (B, G, R) colours of the input pixels: black, white, magenta
Palette == {<<0, 0, 0>>, <<255, 255, 255>>, <<255, 0, 255>>}

\* 3-channel images as read by cv2.imread(..., cv2.IMREAD_COLOR)
Images == UNION {[1..h -> [1..w -> Palette]] : h \in 1..MaxH, w \in 1..MaxW}

InitBin ==
    /\ pc = "b_start"
    /\ img \in Images
    /\ redGreen = NoImage /\ th_red = NoImage /\ opened = NoImage
    /\ NetIdle /\ PredIdle

\* binarize, lines 11-13
Blend ==
    /\ pc = "b_start"
    /\ LET green == Channel(img, 1)
           red == Channel(img, 2)
       IN  redGreen' = addWeighted(red, <<1, 2>>, green, <<1, 2>>, 0)
    /\ pc' = "b_blended"
    /\ UNCHANGED <<img, th_red, opened, netvars, predvars>>

\* binarize, lines 15-21
Threshold ==
    /\ pc = "b_blended"
    /\ th_red' = adaptiveThreshold(redGreen, 255, "THRESH_BINARY_INV", 9, 10)
    /\ pc' = "b_thresholded"
    /\ UNCHANGED <<img, redGreen, opened, netvars, predvars>>

\* binarize, lines 23-26: opening; `opened` is the returned image
Opening ==
    /\ pc = "b_thresholded"
    /\ opened' = morphologyEx_OPEN(th_red, kernel)
    /\ pc' = "b_done"
    /\ UNCHANGED <<img, redGreen, th_red, netvars, predvars>>

NextBin == Blend \/ Threshold \/ Opening

SpecBin == InitBin /\ [][NextBin]_vars

(* ----------------------------- predict.py ------------------------------ *)
labels == <<"FBMessanger", "Instagram", "Invalid", "LINE", "Others", "Pairs", "Twitter">>

RECURSIVE flatten(_)
flatten(m) == IF m = <<>> THEN <<>> ELSE Head(m) \o flatten(Tail(m))

argmax_last(v) ==
    CHOOSE i \in 0..(Len(v) - 1) :
        /\ \A j \in 0..(Len(v) - 1) : v[j + 1] <= v[i + 1]
        /\ \A j \in (i + 1)..(Len(v) - 1) : v[j + 1] < v[i + 1]

\* np.argmax: 0-based index of the first occurrence of the maximum
argmax(v) ==
    CHOOSE i \in 0..(Len(v) - 1) :
        /\ \A j \in 0..(Len(v) - 1) : v[j + 1] <= v[i + 1]
        /\ \A j \in 0..(i - 1) : v[j + 1] < v[i + 1]

PredVals == {0, 1, 2}

\* model.predict(img2): one row of scores per input image, one image
ModelOutputs == {<<v>> : v \in UNION {[1..n -> PredVals] : n \in 1..MaxPredLen}}

InitPred ==
    /\ pc = "p_start"
    /\ PredIdle /\ NetIdle /\ BinIdle

\* main, lines 24-26
Predict ==
    /\ pc = "p_start"
    /\ \E out \in ModelOutputs :
          /\ pred' = flatten(out)
          /\ predicted_class_indices' = argmax(flatten(out))
    /\ pc' = "p_predicted"
    /\ UNCHANGED <<service, netvars, binvars>>

\* main, lines 28-31: labels[predicted_class_indices] raises IndexError when
\* the index is outside the list
PrintService ==
    /\ pc = "p_predicted"
    /\ IF predicted_class_indices < Len(labels)
       THEN service' = labels[predicted_class_indices + 1] /\ pc' = "p_done"
       ELSE service' = service /\ pc' = "p_raised"
    /\ UNCHANGED <<pred, predicted_class_indices, netvars, binvars>>

NextPred == Predict \/ PrintService

SpecPred == InitPred /\ [][NextPred]_vars

(* ------------------------------- claims -------------------------------- *)
Named == {"resnet_18", "resnet_34", "resnet_50", "resnet_101", "resnet_152"}
BlockBuilt == last # NoBlock
AllStagesNonEmpty == \A k \in 1..Len(args.repetitions) : args.repetitions[k] >= 1

RECURSIVE Pow2(_)
Pow2(n) == IF n = 0 THEN 1 ELSE 2 * Pow2(n - 1)

RECURSIVE HalveUp(_, _)
HalveUp(n, times) == IF times = 0 THEN n ELSE HalveUp((n + 1) \div 2, times - 1)

Published(name) ==
    CASE name = "resnet_18" -> [block_fn |-> "basic_block", repetitions |-> <<2, 2, 2, 2>>, layers |-> 18]
      [] name = "resnet_34" -> [block_fn |-> "basic_block", repetitions |-> <<3, 4, 6, 3>>, layers |-> 34]
      [] name = "resnet_50" -> [block_fn |-> "bottleneck", repetitions |-> <<3, 4, 6, 3>>, layers |-> 50]
      [] name = "resnet_101" -> [block_fn |-> "bottleneck", repetitions |-> <<3, 4, 23, 3>>, layers |-> 101]
      [] name = "resnet_152" -> [block_fn |-> "bottleneck", repetitions |-> <<3, 8, 36, 3>>, layers |-> 152]

\* C1: each of the five constructors passes the published block kind and
\* repetition counts to resnet, and the finished network has as many weighted
\* layers on its main path (stem convolution, the convolutions of every
\* block, the dense layer; projection shortcuts not counted) as its name says.
C1_LayerCount ==
    args.ctor \in Named =>
        /\ args.block_fn = Published(args.ctor).block_fn
        /\ args.repetitions = Published(args.ctor).repetitions
        /\ pc = "done" => main_layers = Published(args.ctor).layers

C1_Witness == pc = "done" /\ args.ctor = "resnet_101" /\ main_layers = 101

\* C3: resnet reads input_shape as (nb_channels, nb_rows, nb_cols): the
\* first element is the channel count of the input tensor, the second and
\* third its rows and columns, and the final pooling window is derived from
\* those rows and columns.
C3_ChannelsFirst ==
    pc \in {"stages", "done"} =>
        /\ Dim(input, CHANNEL_AXIS) = args.input_shape[1]
        /\ Dim(input, ROW_AXIS) = args.input_shape[2]
        /\ Dim(input, COL_AXIS) = args.input_shape[3]

\* C5: a bottleneck block built with parameter filters outputs filters * 4
\* channels and a basic block filters channels; the blocks of stage i are
\* built with filters = 64 * 2^i, so a stage outputs 64 * 2^i (basic_block)
\* or 256 * 2^i (bottleneck) channels, and the classifier of a four-stage
\* network sees 512 or 2048 channels.
C5_Channels ==
    /\ BlockBuilt =>
          /\ last.filters = 64 * Pow2(last.stage)
          /\ Dim(last.out, CHANNEL_AXIS) =
                IF args.block_fn = "bottleneck" THEN 4 * last.filters ELSE last.filters
          /\ Dim(last.out, CHANNEL_AXIS) =
                (IF args.block_fn = "bottleneck" THEN 256 ELSE 64) * Pow2(last.stage)
    /\ (pc = "done" /\ Len(args.repetitions) = 4 /\ AllStagesNonEmpty) =>
          flatten1[2] = IF args.block_fn = "bottleneck" THEN 2048 ELSE 512

C5_Witness ==
    /\ pc = "done" /\ args.ctor = "resnet_50" /\ flatten1[2] = 2048
    /\ last.stage = 3 /\ last.filters = 512 /\ Dim(last.out, CHANNEL_AXIS) = 2048

\* C6: in every block of every stage, for both block kinds and every input
\* height and width >= 1, the shortcut and the residual merged by add in
\* _shortcut have the same (rows, cols, channels) shape.
C6_MergeShapesEqual ==
    BlockBuilt =>
        /\ Dim(last.shortcut, ROW_AXIS) = Dim(last.residual, ROW_AXIS)
        /\ Dim(last.shortcut, COL_AXIS) = Dim(last.residual, COL_AXIS)
        /\ Dim(last.shortcut, CHANNEL_AXIS) = Dim(last.residual, CHANNEL_AXIS)

\* an odd input dimension (25 -> 13) strided while the other dimension differs (3 -> 2)
C6_Witness ==
    /\ BlockBuilt /\ last.projection
    /\ Dim(last.inp, ROW_AXIS) = 25 /\ Dim(last.shortcut, ROW_AXIS) = 13
    /\ Dim(last.inp, COL_AXIS) = 1 /\ Dim(last.shortcut, COL_AXIS) = 1

C6_WitnessThree ==
    /\ BlockBuilt /\ last.projection
    /\ Dim(last.inp, ROW_AXIS) = 3 /\ Dim(last.shortcut, ROW_AXIS) = 2
    /\ Dim(last.inp, COL_AXIS) = 100 /\ Dim(last.shortcut, COL_AXIS) = 50

\* C7: _shortcut projects exactly when the input and residual shapes differ;
\* a block has a projection shortcut iff it is the first block of its stage
\* and the stage is not the first one or the block kind is bottleneck; the
\* constructors end with 3 (resnet_18/34) or 4 (resnet_50/101/152) projections.
C7_ProjectionPlacement ==
    /\ BlockBuilt =>
          /\ last.projection <=> (last.inp # last.residual)
          /\ ~last.projection => last.shortcut = last.inp
          /\ last.projection <=>
                (last.i = 0 /\ (last.stage # 0 \/ args.block_fn = "bottleneck"))
    /\ (pc = "done" /\ args.ctor \in Named) =>
          projections = IF args.block_fn = "bottleneck" THEN 4 ELSE 3

C7_Witness ==
    /\ pc = "done" /\ args.ctor = "resnet_50" /\ projections = 4
    /\ last.i = 2 /\ ~last.projection

\* C8: a block is built with init_strides (2, 2) exactly when it is the first
\* block of a stage other than the first, else with (1, 1); a non-first block
\* keeps the spatial size; in a network of n stages, all non-empty, the size
\* reaching the classifier is the input size halved (rounding up) n + 1 times.
C8_Strides ==
    /\ BlockBuilt =>
          /\ last.init_strides = <<2, 2>> <=> (last.i = 0 /\ last.stage # 0)
          /\ last.init_strides # <<2, 2>> => last.init_strides = <<1, 1>>
          /\ last.i > 0 =>
                /\ Dim(last.out, ROW_AXIS) = Dim(last.inp, ROW_AXIS)
                /\ Dim(last.out, COL_AXIS) = Dim(last.inp, COL_AXIS)
    /\ (pc = "done" /\ AllStagesNonEmpty) =>
          /\ Dim(block_shape, ROW_AXIS) =
                HalveUp(Dim(input, ROW_AXIS), Len(args.repetitions) + 1)
          /\ Dim(block_shape, COL_AXIS) =
                HalveUp(Dim(input, COL_AXIS), Len(args.repetitions) + 1)

C8_Witness ==
    /\ pc = "done" /\ args.ctor = "resnet_18"
    /\ Dim(input, ROW_AXIS) = 400 /\ Dim(block_shape, ROW_AXIS) = 13
    /\ Dim(input, COL_AXIS) = 25 /\ Dim(block_shape, COL_AXIS) = 1

Pixels(m) == {m[y][x] : <<y, x>> \in (1..Height(m)) \X (1..Width(m))}

\* C4: for every 3-channel image, binarize returns a single-channel image
\* of the same height and width whose pixels are all 0 or 255.
C4_Binary ==
    pc = "b_done" =>
        /\ Height(opened) = Height(img)
        /\ \A y \in 1..Height(img) : Len(opened[y]) = Len(img[y])
        /\ \A y \in 1..Height(opened) : \A x \in 1..Len(opened[y]) :
              opened[y][x] \in {0, 255}

C4_Witness ==
    /\ pc = "b_done" /\ Height(img) = 2 /\ Width(img) = 2
    /\ Pixels(opened) = {0, 255}

\* C9: the opening step changes nothing: the image returned by binarize
\* equals the output of the adaptive threshold pixel for pixel.
C9_OpeningIdentity == pc = "b_done" => opened = th_red

C9_Witness ==
    /\ pc = "b_done" /\ Height(th_red) = 2 /\ Width(th_red) = 2
    /\ th_red[1][1] = 255 /\ th_red[1][2] = 0 /\ th_red[2][1] = 0 /\ th_red[2][2] = 0
    /\ opened[1][1] = 255

IsLowestArgmax(v, idx) ==
    /\ idx \in 0..(Len(v) - 1)
    /\ \A j \in 0..(Len(v) - 1) : v[j + 1] <= v[idx + 1]
    /\ \A j \in 0..(idx - 1) : v[j + 1] < v[idx + 1]

PredictBehaviour ==
    pc \in {"p_predicted", "p_done", "p_raised"} =>
        /\ IsLowestArgmax(pred, predicted_class_indices)
        /\ Len(pred) <= Len(labels) =>
              (predicted_class_indices \in 0..(Len(labels) - 1) /\ pc # "p_raised")
        /\ pc = "p_done" =>
              /\ predicted_class_indices \in 0..(Len(labels) - 1)
              /\ service = labels[predicted_class_indices + 1]
        /\ pc = "p_raised" =>
              (predicted_class_indices >= Len(labels) /\ service = "")

\* a tie between the first and the last of seven entries
PredictTieWitness ==
    /\ pc = "p_done" /\ Len(pred) = 7
    /\ pred[3] = 2 /\ pred[7] = 2 /\ pred[1] < 2 /\ pred[2] < 2
    /\ service = "Invalid"

====
